---- MODULE Spec2Model ----
(***************************************************************************)
(* A model of two lint rules of clippy_lints (collapsible_if and           *)
(* needless_continue) and of the text-erosion helpers the second rule      *)
(* uses.  Text is a sequence of characters (one-character strings; a       *)
(* longer string stands for a run of characters that are neither           *)
(* whitespace nor a brace nor part of a comment marker).                   *)
(***************************************************************************)
EXTENDS Integers, Sequences, FiniteSets, TLC

VARIABLES
    s,          \* erosion: the &str handed to the helper
    res,        \* erosion: the String the helper returned
    op,         \* erosion: which helper has been called ("none" before)
    expr,       \* lints: the ast::Expr handed to check_expr
    diags,      \* lints: the diagnostics emitted into the lint context
    captures,   \* lints: the capture environments of the patterns that were run
    pc          \* lints: which pass has run on expr ("idle" before)

vars == <<s, res, op, expr, diags, captures, pc>>

(***************************************************************************)
(* Bounds of the model.                                                    *)
(***************************************************************************)
MaxLen == 5         \* longest string handed to the erosion helpers
MaxStmts == 4       \* most statements in a loop body
MaxInner == 2       \* most statements in the then block of an outer if

(***************************************************************************)
(* Characters and strings.                                                 *)
(***************************************************************************)
None == "None"

Whitespace == {" ", "\n", "\t"}

is_whitespace(c) == c \in Whitespace

Last(t) == t[Len(t)]

Front(t) == SubSeq(t, 1, Len(t) - 1)

\* skip_while over the characters of t, for a predicate given as the set of
\* the characters it holds of
RECURSIVE SkipWhile(_, _)
SkipWhile(cs, t) ==
    IF t # <<>> /\ Head(t) \in cs THEN SkipWhile(cs, Tail(t)) ELSE t

OpenBrace == {"{"}

Newline == {"\n"}

starts_with(t, prefix) ==
    /\ Len(t) >= Len(prefix)
    /\ SubSeq(t, 1, Len(prefix)) = prefix

\* while ret.pop().map_or(false, |c| c != '}') {}
RECURSIVE PopThroughBrace(_)
PopThroughBrace(ret) ==
    IF ret = <<>> THEN <<>>
    ELSE IF Last(ret) # "}" THEN PopThroughBrace(Front(ret))
    ELSE Front(ret)

\* while let Some(c) = ret.pop() { if !c.is_whitespace() { ret.push(c); break; } }
RECURSIVE PopWhitespace(_)
PopWhitespace(ret) ==
    IF ret = <<>> THEN <<>>
    ELSE IF is_whitespace(Last(ret)) THEN PopWhitespace(Front(ret))
    ELSE ret

\* mutant: a string without a closing brace is preserved
erode_from_back_keep(t) ==
    IF \E i \in 1..Len(t) : t[i] = "}"
    THEN PopWhitespace(PopThroughBrace(t))
    ELSE t

\* mutant: the trailing whitespace is not eaten
erode_from_back_nows(t) == PopThroughBrace(t)

erode_from_back(t) == PopWhitespace(PopThroughBrace(t))

\* mutant: every whitespace character after the braces is eaten
erode_from_front_allws(t) ==
    SkipWhile(Whitespace, SkipWhile(OpenBrace, SkipWhile(Whitespace, t)))

erode_from_front(t) ==
    SkipWhile(Newline, SkipWhile(OpenBrace, SkipWhile(Whitespace, t)))

erode_block(t) == erode_from_back(erode_from_front(t))

(***************************************************************************)
(* Spans and the source map.  A span is a place in the source (id), its    *)
(* syntax context ("root" for literal source, another value for the        *)
(* output of a macro expansion) and the source text it covers.             *)
(***************************************************************************)
Ctxts == {"root", "m1", "m2"}

Sp(id, ctxt, text) == [id |-> id, ctxt |-> ctxt, text |-> text]

from_expansion(span) == span.ctxt # "root"

snippet(span) == span.text

\* the text of the macro invocation a generated span comes from
CallSiteText == <<"m!", "(", ")", ";">>

original_sp(span) ==
    IF from_expansion(span) THEN Sp(span.id, "root", CallSiteText) ELSE span

RECURSIVE Concat(_)
Concat(ts) == IF ts = <<>> THEN <<>> ELSE Head(ts) \o Concat(Tail(ts))

RECURSIVE Join(_, _)
Join(ts, sep) ==
    IF ts = <<>> THEN <<>>
    ELSE IF Len(ts) = 1 THEN ts[1]
    ELSE ts[1] \o sep \o Join(Tail(ts), sep)

RECURSIVE Lines(_)
Lines(t) ==
    IF \E i \in 1..Len(t) : t[i] = "\n"
    THEN LET i == CHOOSE k \in 1..Len(t) :
                      t[k] = "\n" /\ \A j \in 1..(k-1) : t[j] # "\n"
         IN  <<SubSeq(t, 1, i - 1)>> \o Lines(SubSeq(t, i + 1, Len(t)))
    ELSE <<t>>

Indent(line) == Len(line) - Len(SkipWhile({" "}, line))

MinIndent(ls) ==
    LET ns == {Indent(ls[i]) : i \in {j \in 1..Len(ls) : ls[j] # <<>>}}
    IN  IF ns = {} THEN 0 ELSE CHOOSE n \in ns : \A m \in ns : n <= m

trim_multiline(t) ==
    LET ls == Lines(t)
        x == MinIndent(ls)
    IN  IF x = 0 THEN t
        ELSE Join([i \in 1..Len(ls) |->
                      IF ls[i] = <<>> THEN <<>>
                      ELSE SubSeq(ls[i], x + 1, Len(ls[i]))], <<"\n">>)

snippet_block(span) == trim_multiline(snippet(span))

(***************************************************************************)
(* The syntax tree (syntax::ast): expressions, blocks and statements.      *)
(***************************************************************************)
NoExpr == [node |-> "None"]

PathE(p, c, tok) == [node |-> "Path", span |-> Sp(p, c, <<tok>>)]

LetE(p, c, tok) ==
    [node |-> "Let", span |-> Sp(p, c, <<"let", " ", "Some(v)", " ", "=", " ", tok>>)]

ContinueE(p, c, l) ==
    [node |-> "Continue", label |-> l,
     span |-> Sp(p, c, IF l = None THEN <<"continue">> ELSE <<"continue", " ", l>>)]

StmtOf(kind, p, e) ==
    [kind |-> kind, expr |-> e,
     span |-> Sp(p, e.span.ctxt,
                 IF kind = "Expr" THEN e.span.text
                 ELSE IF kind = "Semi" THEN e.span.text \o <<";">>
                 ELSE <<"let", " ", "v", " ", "=", " ">> \o e.span.text \o <<";">>)]

\* the trivia between the opening brace of a block and its first statement
LeadText(lead) ==
    CASE lead = "space" -> <<" ">>
      [] lead = "newline" -> <<"\n", " ", " ">>
      [] lead = "line_comment" -> <<" ", "/", "/", " ", "k", "\n", " ", " ">>
      [] lead = "block_comment" -> <<" ", "/", "*", " ", "k", " ", "*", "/", " ">>

SepText(lead) ==
    IF lead \in {"newline", "line_comment"} THEN <<"\n", " ", " ">> ELSE <<" ">>

TrailText(lead) ==
    IF lead \in {"newline", "line_comment"} THEN <<"\n">> ELSE <<" ">>

BlockOf(p, c, lead, stmts) ==
    [stmts |-> stmts,
     span |-> Sp(p, c,
                 <<"{">> \o LeadText(lead)
                 \o Join([i \in 1..Len(stmts) |-> stmts[i].span.text], SepText(lead))
                 \o (IF stmts = <<>> THEN <<>> ELSE TrailText(lead)) \o <<"}">>)]

\* ExprKind::Block: the expression has the span of its block
BlockE(blk) == [node |-> "Block", block |-> blk, span |-> blk.span]

IfE(p, c, cond, then, els) ==
    [node |-> "If", cond |-> cond, then |-> then, els |-> els,
     span |-> Sp(p, c,
                 <<"if", " ">> \o cond.span.text \o <<" ">> \o then.span.text
                 \o (IF els.node = "None" THEN <<>>
                     ELSE <<" ", "else", " ">> \o els.span.text))]

LoopHeader(kind) ==
    CASE kind = "Loop" -> <<"loop", " ">>
      [] kind = "While" -> <<"while", " ", "w", " ">>
      [] kind = "ForLoop" -> <<"for", " ", "x", " ", "in", " ", "xs", " ">>

LoopE(kind, p, c, label, body) ==
    [node |-> kind, label |-> label, body |-> body,
     span |-> Sp(p, c,
                 (IF label = None THEN <<>> ELSE <<label, ":", " ">>)
                 \o LoopHeader(kind) \o body.span.text)]

(***************************************************************************)
(* The patterns.  A pattern yields its capture environment or NoMatch.     *)
(***************************************************************************)
NoMatch == [matched |-> FALSE]

\* Expr($expr) | Semi($expr)
expr_or_semi(stmt) == stmt.kind \in {"Expr", "Semi"}

\* Loop($body, $label) | ForLoop(_, $body, $label) | While(_, $body, $label)
some_loop(e) == e.node \in {"Loop", "ForLoop", "While"}

\* The search of a sequence `_* Anchor _*`: the earliest sibling the anchor
\* matches, 0 when it matches none.  anchored[i] tells whether the anchor
\* matches the i-th sibling.
FirstMatch(anchored) ==
    IF \E i \in 1..Len(anchored) : anchored[i]
    THEN CHOOSE i \in 1..Len(anchored) :
             /\ anchored[i]
             /\ \A j \in 1..(i - 1) : ~anchored[j]
    ELSE 0

\* Block(expr_or_semi(Continue(_?#continue_label)) _*)
BlockStartsWithContinue(blk) ==
    /\ Len(blk.stmts) >= 1
    /\ expr_or_semi(blk.stmts[1])
    /\ blk.stmts[1].expr.node = "Continue"

\* expr_or_semi(If(_, _, Block_(Block(expr_or_semi(Continue(_?)) _*))))
ElseHoldsContinue(stmt) ==
    /\ expr_or_semi(stmt)
    /\ stmt.expr.node = "If"
    /\ stmt.expr.els.node = "Block"
    /\ BlockStartsWithContinue(stmt.expr.els.block)

\* expr_or_semi(If(_, Block(expr_or_semi(Continue(_?)) _*), _))
ThenHoldsContinue(stmt) ==
    /\ expr_or_semi(stmt)
    /\ stmt.expr.node = "If"
    /\ BlockStartsWithContinue(stmt.expr.then)
    /\ stmt.expr.els.node # "None"

\* mutant: the capture sits on the statements in front of the if (region A)
needless_continue_pattern_1_region_a(e) ==
    IF ~some_loop(e) THEN NoMatch
    ELSE LET stmts == e.body.stmts
             i == FirstMatch([k \in 1..Len(stmts) |-> ElseHoldsContinue(stmts[k])])
         IN  IF i = 0 THEN NoMatch
             ELSE [matched |-> TRUE,
                   if_cond |-> stmts[i].expr.cond,
                   if_block |-> stmts[i].expr.then,
                   else_expr |-> stmts[i].expr.els,
                   if_expr |-> stmts[i].expr,
                   continue_label |-> stmts[i].expr.els.block.stmts[1].expr.label,
                   region_c |-> SubSeq(stmts, 1, i - 1),
                   loop_label |-> e.label]

needless_continue_pattern_1(e) ==
    IF ~some_loop(e) THEN NoMatch
    ELSE LET stmts == e.body.stmts
             i == FirstMatch([k \in 1..Len(stmts) |-> ElseHoldsContinue(stmts[k])])
         IN  IF i = 0 THEN NoMatch
             ELSE [matched |-> TRUE,
                   if_cond |-> stmts[i].expr.cond,
                   if_block |-> stmts[i].expr.then,
                   else_expr |-> stmts[i].expr.els,
                   if_expr |-> stmts[i].expr,
                   continue_label |-> stmts[i].expr.els.block.stmts[1].expr.label,
                   region_c |-> SubSeq(stmts, i + 1, Len(stmts)),
                   loop_label |-> e.label]

needless_continue_pattern_2(e) ==
    IF ~some_loop(e) THEN NoMatch
    ELSE LET stmts == e.body.stmts
             i == FirstMatch([k \in 1..Len(stmts) |-> ThenHoldsContinue(stmts[k])])
         IN  IF i = 0 THEN NoMatch
             ELSE [matched |-> TRUE,
                   if_cond |-> stmts[i].expr.cond,
                   if_block |-> stmts[i].expr.then,
                   else_expr |-> stmts[i].expr.els,
                   if_expr |-> stmts[i].expr,
                   continue_label |-> stmts[i].expr.then.stmts[1].expr.label,
                   region_c |-> SubSeq(stmts, i + 1, Len(stmts)),
                   loop_label |-> e.label]

\* If(_#check, Block(expr_or_semi(If(_#check_inner, _#content, ())#inner))#then, ())
pat_if_without_else(e) ==
    IF /\ e.node = "If"
       /\ e.els.node = "None"
       /\ Len(e.then.stmts) = 1
       /\ expr_or_semi(e.then.stmts[1])
       /\ e.then.stmts[1].expr.node = "If"
       /\ e.then.stmts[1].expr.els.node = "None"
    THEN [matched |-> TRUE,
          check |-> e.cond,
          check_inner |-> e.then.stmts[1].expr.cond,
          content |-> e.then.stmts[1].expr.then,
          inner |-> e.then.stmts[1].expr,
          then |-> e.then]
    ELSE NoMatch

\* If(_, _, Block_(Block(expr_or_semi(If(_, _, _?)#else_))#block_inner)#block)
pat_if_else(e) ==
    IF /\ e.node = "If"
       /\ e.els.node = "Block"
       /\ Len(e.els.block.stmts) = 1
       /\ expr_or_semi(e.els.block.stmts[1])
       /\ e.els.block.stmts[1].expr.node = "If"
    THEN [matched |-> TRUE,
          else_ |-> e.els.block.stmts[1].expr,
          block_inner |-> e.els.block,
          block |-> e.els]
    ELSE NoMatch

(***************************************************************************)
(* Diagnostics.                                                            *)
(***************************************************************************)
NoSuggestion == [present |-> FALSE]

\* a lint with a help message and no suggestion
span_help_and_lint(lint, span, msg, help) ==
    [lint |-> lint, span |-> span, msg |-> msg, help |-> help,
     sugg |-> NoSuggestion]

\* a lint with a suggestion for the span it is reported on
span_lint_and_sugg(lint, span, msg, help, replacement, applicability) ==
    [lint |-> lint, span |-> span, msg |-> msg, help |-> <<>>,
     sugg |-> [present |-> TRUE, span |-> span, msg |-> help,
               replacement |-> replacement, applicability |-> applicability]]

\* lhs.and(&rhs)
Sugg_and(lhs, rhs) == lhs \o <<" ", "&&", " ">> \o rhs

MSG_REDUNDANT_ELSE_BLOCK == "This else block is redundant.\n"

MSG_ELSE_BLOCK_NOT_NEEDED ==
    "There is no need for an explicit else block for this if expression\n"

DROP_ELSE_BLOCK_AND_MERGE_MSG ==
    "Consider dropping the else clause and merging the code that follows (in the loop) with the if block, like so:\n"

DROP_ELSE_BLOCK_MSG ==
    "Consider dropping the else clause, and moving out the code in the else block, like so:\n"

MergedComment == <<"\n", "/", "/", " ", "Merged code follows...">>

(***************************************************************************)
(* needless_continue                                                       *)
(***************************************************************************)
\* mutant: a labelled loop accepts a continue with any label
compare_labels_any(loop_label, continue_label) ==
    continue_label = None \/ loop_label # None

compare_labels(loop_label, continue_label) ==
    IF continue_label = None THEN TRUE
    ELSE IF loop_label = None THEN FALSE
    ELSE loop_label = continue_label

\* mutant: the code that follows the if is not annexed
check_and_warn_in_else_block_no_annex(e) ==
    LET r == needless_continue_pattern_1(e)
    IN  IF r.matched /\ compare_labels(r.loop_label, r.continue_label)
        THEN LET cond_code == snippet(r.if_cond.span)
                 block_code == trim_multiline(erode_block(snippet(r.if_block.span)))
                 if_code == <<"if", " ">> \o cond_code \o <<" ", "{", "\n">> \o block_code
                 suggest == <<DROP_ELSE_BLOCK_AND_MERGE_MSG>> \o if_code
                            \o MergedComment \o <<"\n", "}", "\n">>
             IN  <<span_help_and_lint("needless_continue", r.else_expr.span,
                                      MSG_REDUNDANT_ELSE_BLOCK, suggest)>>
        ELSE <<>>

check_and_warn_in_else_block(e) ==
    LET r == needless_continue_pattern_1(e)
    IN  IF r.matched /\ compare_labels(r.loop_label, r.continue_label)
        THEN LET cond_code == snippet(r.if_cond.span)
                 block_code == trim_multiline(erode_block(snippet(r.if_block.span)))
                 if_code == <<"if", " ">> \o cond_code \o <<" ", "{", "\n">> \o block_code
                 to_annex == Join([i \in 1..Len(r.region_c) |->
                                      snippet_block(original_sp(r.region_c[i].span))],
                                  <<"\n">>)
                 suggest == <<DROP_ELSE_BLOCK_AND_MERGE_MSG>> \o if_code
                            \o MergedComment \o to_annex \o <<"\n", "}", "\n">>
             IN  <<span_help_and_lint("needless_continue", r.else_expr.span,
                                      MSG_REDUNDANT_ELSE_BLOCK, suggest)>>
        ELSE <<>>

\* mutant: the rewrite is offered as a machine-applicable suggestion
check_and_warn_in_then_block_sugg(e) ==
    LET r == needless_continue_pattern_2(e)
    IN  IF r.matched /\ compare_labels(r.loop_label, r.continue_label)
        THEN LET cond_code == snippet(r.if_cond.span)
                 if_code == <<"if", " ">> \o cond_code
                            \o <<" ", "{", "\n", " ", " ", " ", " ", "continue", ";",
                                 "\n", "}", "\n">>
                 else_code == trim_multiline(erode_block(snippet(r.else_expr.span)))
             IN  <<span_lint_and_sugg("needless_continue", r.if_expr.span,
                                      MSG_ELSE_BLOCK_NOT_NEEDED, "try",
                                      if_code \o else_code, "MachineApplicable")>>
        ELSE <<>>

check_and_warn_in_then_block(e) ==
    LET r == needless_continue_pattern_2(e)
    IN  IF r.matched /\ compare_labels(r.loop_label, r.continue_label)
        THEN LET cond_code == snippet(r.if_cond.span)
                 if_code == <<"if", " ">> \o cond_code
                            \o <<" ", "{", "\n", " ", " ", " ", " ", "continue", ";",
                                 "\n", "}", "\n">>
                 else_code == trim_multiline(erode_block(snippet(r.else_expr.span)))
                 suggest == <<DROP_ELSE_BLOCK_MSG>> \o if_code \o else_code
                            \o <<"\n", "...">>
             IN  <<span_help_and_lint("needless_continue", r.if_expr.span,
                                      MSG_ELSE_BLOCK_NOT_NEEDED, suggest)>>
        ELSE <<>>

(***************************************************************************)
(* collapsible_if                                                          *)
(***************************************************************************)
WhitespaceOrOpenBrace == Whitespace \cup {"{"}

\* mutant: only line comments are recognised
block_starts_with_comment_line_only(blk) ==
    starts_with(SkipWhile(WhitespaceOrOpenBrace, snippet_block(blk.span)),
                <<"/", "/">>)

block_starts_with_comment(blk) ==
    LET trimmed_block_text ==
            SkipWhile(WhitespaceOrOpenBrace, snippet_block(blk.span))
    IN  \/ starts_with(trimmed_block_text, <<"/", "/">>)
        \/ starts_with(trimmed_block_text, <<"/", "*">>)

\* the first half of check_expr: `if x { if y { .. } }`
check_collapsible_no_else(e) ==
    LET result == pat_if_without_else(e)
    IN  IF /\ result.matched
           /\ ~block_starts_with_comment(result.then)
           /\ e.span.ctxt = result.inner.span.ctxt
        THEN LET lhs == snippet(result.check.span)
                 rhs == snippet(result.check_inner.span)
             IN  <<span_lint_and_sugg(
                     "collapsible_if", e.span,
                     "this if statement can be collapsed", "try",
                     <<"if", " ">> \o Sugg_and(lhs, rhs) \o <<" ">>
                         \o snippet_block(result.content.span),
                     "MachineApplicable")>>
        ELSE <<>>

\* mutant: the suggestion replaces the whole if expression
check_collapsible_else_whole(e) ==
    LET result == pat_if_else(e)
    IN  IF /\ result.matched
           /\ ~block_starts_with_comment(result.block_inner)
           /\ ~from_expansion(result.else_.span)
        THEN <<span_lint_and_sugg(
                 "collapsible_if", e.span,
                 "this else { if .. } block can be collapsed", "try",
                 snippet_block(result.else_.span), "MachineApplicable")>>
        ELSE <<>>

\* the second half of check_expr: `if x { .. } else { if y { .. } }`
check_collapsible_else(e) ==
    LET result == pat_if_else(e)
    IN  IF /\ result.matched
           /\ ~block_starts_with_comment(result.block_inner)
           /\ ~from_expansion(result.else_.span)
        THEN <<span_lint_and_sugg(
                 "collapsible_if", result.block.span,
                 "this else { if .. } block can be collapsed", "try",
                 snippet_block(result.else_.span), "MachineApplicable")>>
        ELSE <<>>

\* the `return`s of check_expr for `if let`
ReturnsOnLet(e) ==
    LET result == pat_if_without_else(e)
    IN  /\ result.matched
        /\ (result.check.node = "Let" \/ result.check_inner.node = "Let")

(***************************************************************************)
(* The expressions the lint passes are run on.                             *)
(***************************************************************************)
Labels == {"'a", "'b"}

\* the texts of the conditions and calls of the i-th statement of a loop body
CTok == <<"c1", "c2", "c3", "c4", "c5", "c6", "c7", "c8">>
STok == <<"s1()", "s2()", "s3()", "s4()", "s5()", "s6()", "s7()", "s8()">>
GTok == <<"g1()", "g2()", "g3()", "g4()", "g5()", "g6()", "g7()", "g8()">>
ETok == <<"e1()", "e2()", "e3()", "e4()", "e5()", "e6()", "e7()", "e8()">>

CallStmt(p, tok) == StmtOf("Semi", p, PathE(p \o <<0>>, "root", tok))

ContinueStmt(p, c, l) == StmtOf("Semi", p, ContinueE(p \o <<0>>, c, l))

BodyShapes == {"plain", "else_continue", "then_continue", "then_continue_no_else"}

\* The i-th statement of a loop body.  cl is the label of its continue, bc
\* the syntax context of the if and of its branch with the continue (the
\* condition and the other branch are written in the source).
BodyStmt(shape, i, cl, bc) ==
    LET p == <<i>>
        q == <<i, 0>>
        cond == PathE(q \o <<1>>, "root", CTok[i])
    IN  CASE shape = "plain" -> CallStmt(p, STok[i])
          [] shape = "else_continue" ->
                StmtOf("Expr", p,
                    IfE(q, bc, cond,
                        BlockOf(q \o <<2>>, "root", "newline",
                                <<CallStmt(q \o <<2, 1>>, GTok[i])>>),
                        BlockE(BlockOf(q \o <<3>>, bc, "space",
                                       <<ContinueStmt(q \o <<3, 1>>, bc, cl)>>))))
          [] shape = "then_continue" ->
                StmtOf("Semi", p,
                    IfE(q, bc, cond,
                        BlockOf(q \o <<2>>, bc, "space",
                                <<ContinueStmt(q \o <<2, 1>>, bc, cl),
                                  CallStmt(q \o <<2, 2>>, GTok[i])>>),
                        BlockE(BlockOf(q \o <<3>>, "root", "newline",
                                       <<CallStmt(q \o <<3, 1>>, ETok[i])>>))))
          [] shape = "then_continue_no_else" ->
                StmtOf("Expr", p,
                    IfE(q, bc, cond,
                        BlockOf(q \o <<2>>, bc, "space",
                                <<ContinueStmt(q \o <<2, 1>>, bc, cl)>>),
                        NoExpr))

ShapeSeqs(shapes, n) == UNION {[1..k -> shapes] : k \in 0..n}

MkLoop(kind, label, cl, c, bc, shapes) ==
    LoopE(kind, <<>>, c, label,
          BlockOf(<<0>>, c, "newline",
                  [i \in 1..Len(shapes) |-> BodyStmt(shapes[i], i, cl, bc)]))

LoopKinds == {"Loop", "While", "ForLoop"}

\* <<loop label, continue label>>
LabelPairs ==
    {<<None, None>>, <<"'a", None>>, <<None, "'a">>, <<"'a", "'a">>, <<"'a", "'b">>}

\* <<syntax context of the loop, syntax context of the if and its continue branch>>
LoopCtxtPairs ==
    {<<"root", "root">>, <<"root", "m1">>, <<"m1", "root">>, <<"m1", "m1">>}

\* <<kind, <<loop label, continue label>>, <<context of the loop, of its if>>>>:
\* every kind with every pairing of labels in literal source, and a loop with
\* every pairing of labels and of syntax contexts
LoopParams ==
    {<<k, lp, <<"root", "root">>>> : k \in LoopKinds, lp \in LabelPairs}
    \cup {<<"Loop", lp, cp>> : lp \in LabelPairs, cp \in LoopCtxtPairs}

LoopUniverse ==
    {MkLoop(lk[1], lk[2][1], lk[2][2], lk[3][1], lk[3][2], sh) :
        lk \in LoopParams, sh \in ShapeSeqs(BodyShapes, MaxStmts)}

InnerShapes == {"plain", "if", "if_let", "if_else"}

\* A statement of the then or else block of an outer if; ic is the syntax
\* context of a nested if.
InnerIf(p, ic, letcond, withelse) ==
    IfE(p, ic,
        IF letcond THEN LetE(p \o <<1>>, ic, "b") ELSE PathE(p \o <<1>>, ic, "b"),
        BlockOf(p \o <<2>>, ic, "space", <<CallStmt(p \o <<2, 1>>, "f()")>>),
        IF withelse
        THEN BlockE(BlockOf(p \o <<3>>, ic, "space", <<CallStmt(p \o <<3, 1>>, "h()")>>))
        ELSE NoExpr)

InnerStmt(shape, p, ic) ==
    CASE shape = "plain" -> CallStmt(p, "f()")
      [] shape = "if" -> StmtOf("Expr", p, InnerIf(p \o <<0>>, ic, FALSE, FALSE))
      [] shape = "if_let" -> StmtOf("Semi", p, InnerIf(p \o <<0>>, ic, TRUE, FALSE))
      [] shape = "if_else" -> StmtOf("Expr", p, InnerIf(p \o <<0>>, ic, FALSE, TRUE))
      [] shape = "local" -> StmtOf("Local", p, InnerIf(p \o <<0>>, ic, FALSE, FALSE))

ElseOptions ==
    {[kind |-> "none", shapes |-> <<>>], [kind |-> "else_if", shapes |-> <<>>]}
    \cup {[kind |-> "block", shapes |-> sh] :
            sh \in {<<"if">>, <<"if_let">>, <<"if_else">>, <<"plain">>,
                    <<"local">>, <<"if", "plain">>}}

MkIf(oc, letcond, lead, tshapes, eopt, ic) ==
    IfE(<<>>, oc,
        IF letcond THEN LetE(<<1>>, oc, "a") ELSE PathE(<<1>>, oc, "a"),
        BlockOf(<<2>>, oc, lead,
                [j \in 1..Len(tshapes) |-> InnerStmt(tshapes[j], <<2, j>>, ic)]),
        CASE eopt.kind = "none" -> NoExpr
          [] eopt.kind = "else_if" -> InnerIf(<<3>>, ic, FALSE, FALSE)
          [] eopt.kind = "block" ->
                BlockE(BlockOf(<<3>>, oc, lead,
                               [j \in 1..Len(eopt.shapes) |->
                                   InnerStmt(eopt.shapes[j], <<3, j>>, ic)])))

IfLeads == {"space", "line_comment", "block_comment"}

\* <<statements of the then block, else branch>>: every then block without an
\* else branch, and every else branch behind a then block of one call
IfBranches ==
    {<<ts, [kind |-> "none", shapes |-> <<>>]>> :
        ts \in ShapeSeqs(InnerShapes, MaxInner)}
    \cup {<<ts, eo>> : ts \in {<<"plain">>, <<"if">>}, eo \in ElseOptions}

IfUniverse ==
    {MkIf(oc, lc, lead, br[1], br[2], ic) :
        oc \in {"root", "m1"}, lc \in BOOLEAN, lead \in IfLeads,
        br \in IfBranches, ic \in Ctxts}

ExprUniverse == LoopUniverse \cup IfUniverse

ErodeChars == {"{", "}", " ", "\n", "a"}

ErodeStrings == UNION {[1..k -> ErodeChars] : k \in 0..MaxLen}

(***************************************************************************)
(* The lint passes.                                                        *)
(***************************************************************************)
Init ==
    /\ expr \in ExprUniverse
    /\ diags = <<>>
    /\ captures = <<>>
    /\ pc = "idle"
    /\ s = <<>>
    /\ res = <<>>
    /\ op = "none"

\* mutant: the passes are run on a loop that comes from a macro expansion too
NeedlessContinue_check_expr_unguarded ==
    /\ pc = "idle"
    /\ pc' = "needless_continue"
    /\ diags' = check_and_warn_in_else_block(expr)
                \o check_and_warn_in_then_block(expr)
    /\ captures' = <<needless_continue_pattern_1(expr),
                     needless_continue_pattern_2(expr)>>
    /\ UNCHANGED <<expr, s, res, op>>

\* <NeedlessContinue as EarlyLintPass>::check_expr
NeedlessContinue_check_expr ==
    /\ pc = "idle"
    /\ pc' = "needless_continue"
    /\ IF ~from_expansion(expr.span)
       THEN /\ diags' = check_and_warn_in_else_block(expr)
                        \o check_and_warn_in_then_block(expr)
            /\ captures' = <<needless_continue_pattern_1(expr),
                             needless_continue_pattern_2(expr)>>
       ELSE /\ diags' = <<>>
            /\ captures' = <<>>
    /\ UNCHANGED <<expr, s, res, op>>

\* <CollapsibleIf as EarlyLintPass>::check_expr
CollapsibleIf_check_expr ==
    /\ pc = "idle"
    /\ pc' = "collapsible_if"
    /\ IF from_expansion(expr.span)
       THEN /\ diags' = <<>>
            /\ captures' = <<>>
       ELSE IF ReturnsOnLet(expr)
       THEN /\ diags' = <<>>
            /\ captures' = <<pat_if_without_else(expr)>>
       ELSE /\ diags' = check_collapsible_no_else(expr) \o check_collapsible_else(expr)
            /\ captures' = <<pat_if_without_else(expr), pat_if_else(expr)>>
    /\ UNCHANGED <<expr, s, res, op>>

Next == NeedlessContinue_check_expr \/ CollapsibleIf_check_expr

Spec == Init /\ [][Next]_vars

(***************************************************************************)
(* The erosion helpers, called on their own.                               *)
(***************************************************************************)
InitErode ==
    /\ s \in ErodeStrings
    /\ res = <<>>
    /\ op = "none"
    /\ expr = NoExpr
    /\ diags = <<>>
    /\ captures = <<>>
    /\ pc = "idle"

Call_erode_from_front ==
    /\ op = "none"
    /\ op' = "erode_from_front"
    /\ res' = erode_from_front(s)
    /\ UNCHANGED <<s, expr, diags, captures, pc>>

Call_erode_from_back ==
    /\ op = "none"
    /\ op' = "erode_from_back"
    /\ res' = erode_from_back(s)
    /\ UNCHANGED <<s, expr, diags, captures, pc>>

Call_erode_block ==
    /\ op = "none"
    /\ op' = "erode_block"
    /\ res' = erode_block(s)
    /\ UNCHANGED <<s, expr, diags, captures, pc>>

NextErode == Call_erode_from_front \/ Call_erode_from_back \/ Call_erode_block

SpecErode == InitErode /\ [][NextErode]_vars

(***************************************************************************)
(* Properties of the erosion helpers (checked under SpecErode).            *)
(***************************************************************************)
HasBrace(t) == \E i \in 1..Len(t) : t[i] = "}"

\* the number of characters at the front of t that are in cs
LeadCount(t, cs) ==
    CHOOSE k \in 0..Len(t) :
        /\ \A j \in 1..k : t[j] \in cs
        /\ k = Len(t) \/ t[k + 1] \notin cs

\* the number of characters at the back of t that are in cs
TrailCount(t, cs) ==
    CHOOSE k \in 0..Len(t) :
        /\ \A j \in (Len(t) - k + 1)..Len(t) : t[j] \in cs
        /\ k = Len(t) \/ t[Len(t) - k] \notin cs

\* t is '{' + whitespace + body + whitespace + '}' with no brace in between
HasBlockForm(t) ==
    /\ Len(t) >= 2
    /\ t[1] = "{"
    /\ t[Len(t)] = "}"
    /\ \A i \in 2..(Len(t) - 1) : t[i] \notin {"{", "}"}

InnerOf(t) == SubSeq(t, 2, Len(t) - 1)

\* the body of a string of block form: what is between the two runs of whitespace
BodyOf(t) ==
    LET inner == InnerOf(t)
        a == LeadCount(inner, Whitespace)
        b == TrailCount(inner, Whitespace)
    IN  IF a = Len(inner) THEN <<>> ELSE SubSeq(inner, a + 1, Len(inner) - b)

\* C1 as stated: erode_block of '{' + whitespace + body + whitespace + '}' is
\* body, with no leading brace or whitespace and no trailing brace or whitespace.
C1_ErodeBlockIsBody ==
    (op = "erode_block" /\ HasBlockForm(s)) => res = BodyOf(s)

\* C1 amended: erode_block of '{' + w1 + body + w2 + '}' is empty when body is
\* empty and otherwise w1 without its leading newlines followed by body; it has
\* no brace and no trailing whitespace, and it is body exactly when w1 holds
\* nothing but newlines.
C1_ErodeBlockKeepsIndentation ==
    (op = "erode_block" /\ HasBlockForm(s)) =>
        LET inner == InnerOf(s)
            nl == LeadCount(inner, {"\n"})
            b == TrailCount(inner, Whitespace)
            w1 == SubSeq(inner, 1, LeadCount(inner, Whitespace))
        IN  /\ res = IF BodyOf(s) = <<>> THEN <<>>
                     ELSE SubSeq(inner, nl + 1, Len(inner) - b)
            /\ \A i \in 1..Len(res) : res[i] \notin {"{", "}"}
            /\ res = <<>> \/ ~is_whitespace(Last(res))
            /\ res = <<>> \/ res[1] # "\n"
            /\ BodyOf(s) # <<>> =>
                   (res = BodyOf(s) <=> \A i \in 1..Len(w1) : w1[i] = "\n")

C1_Witness ==
    /\ op = "erode_block"
    /\ s = <<"{", " ", "a", " ", "}">>
    /\ res = <<" ", "a">>

\* C2: erode_from_back can be called on every string, and on a string without
\* a closing brace (the empty string included) it returns the empty string.
C2_NoBraceErodesToEmpty ==
    /\ op = "none" => ENABLED Call_erode_from_back
    /\ (op = "erode_from_back" /\ ~HasBrace(s)) => res = <<>>

C2_Witness ==
    /\ op = "erode_from_back"
    /\ s = <<" ", "a", "{">>
    /\ res = <<>>

\* C10: on a string with a closing brace, erode_from_back returns the prefix in
\* front of the last closing brace without that prefix's trailing whitespace: a
\* prefix of the input that is empty or ends in a non-whitespace character.
C10_ErodeFromBackIsTrimmedPrefix ==
    (op = "erode_from_back" /\ HasBrace(s)) =>
        LET k == CHOOSE i \in 1..Len(s) :
                     s[i] = "}" /\ \A j \in (i + 1)..Len(s) : s[j] # "}"
            pre == SubSeq(s, 1, k - 1)
            m == Len(pre) - TrailCount(pre, Whitespace)
        IN  /\ res = SubSeq(pre, 1, m)
            /\ Len(res) < k
            /\ res = SubSeq(s, 1, Len(res))
            /\ res = <<>> \/ ~is_whitespace(Last(res))

C10_Witness ==
    /\ op = "erode_from_back"
    /\ s = <<"}", "a", " ", "}", "a">>
    /\ res = <<"}", "a">>

(***************************************************************************)
(* Properties of needless_continue (checked under Spec).                   *)
(***************************************************************************)
NonWs(t) == SelectSeq(t, LAMBDA c : ~is_whitespace(c))

Occurs(c, t) == \E i \in 1..Len(t) : t[i] = c

\* the label rule: an unlabelled continue agrees with every loop, a labelled
\* one with the loop of the same label only
LabelsAgree(loop_label, continue_label) ==
    continue_label = None \/ continue_label = loop_label

RanNeedlessContinue ==
    /\ pc = "needless_continue"
    /\ some_loop(expr)
    /\ ~from_expansion(expr.span)

\* the statements of the loop body that are an if whose else block begins with
\* a continue, and those that are an if with an else whose then block does
ElseAnchors ==
    {i \in 1..Len(expr.body.stmts) : ElseHoldsContinue(expr.body.stmts[i])}

ThenAnchors ==
    {i \in 1..Len(expr.body.stmts) : ThenHoldsContinue(expr.body.stmts[i])}

Min(S) == CHOOSE n \in S : \A m \in S : n <= m

DiagsOn(span) == {k \in 1..Len(diags) : diags[k].span = span}

ElseContinueLabel(i) == expr.body.stmts[i].expr.els.block.stmts[1].expr.label

ThenContinueLabel(i) == expr.body.stmts[i].expr.then.stmts[1].expr.label

\* C3: for every pair of loop label and continue label, a diagnostic of either
\* shape is on an if whose continue agrees with the label of the loop (an
\* unlabelled continue with any loop, a labelled continue only with the loop of
\* the identical label), and the first if of a shape is reported when they agree.
C3_ReportsOnlyWhenLabelsAgree ==
    RanNeedlessContinue =>
        /\ \A k \in 1..Len(diags) :
               \/ \E i \in ElseAnchors :
                      /\ diags[k].span = expr.body.stmts[i].expr.els.span
                      /\ LabelsAgree(expr.label, ElseContinueLabel(i))
               \/ \E i \in ThenAnchors :
                      /\ diags[k].span = expr.body.stmts[i].expr.span
                      /\ LabelsAgree(expr.label, ThenContinueLabel(i))
        /\ (/\ ElseAnchors # {}
            /\ LabelsAgree(expr.label, ElseContinueLabel(Min(ElseAnchors))))
               => DiagsOn(expr.body.stmts[Min(ElseAnchors)].expr.els.span) # {}
        /\ (/\ ThenAnchors # {}
            /\ LabelsAgree(expr.label, ThenContinueLabel(Min(ThenAnchors))))
               => DiagsOn(expr.body.stmts[Min(ThenAnchors)].expr.span) # {}

\* a labelled loop with an unlabelled continue is reported
C3_Witness ==
    /\ RanNeedlessContinue
    /\ expr.label = "'a"
    /\ ElseAnchors # {}
    /\ ElseContinueLabel(Min(ElseAnchors)) = None
    /\ Len(diags) = 1

\* C4: the sequence pattern of either shape anchors at the smallest index at
\* which the if/else anchor matches and captures every sibling after it as
\* region_c: of [s0, s1, s2, s3] with s1 and s3 the only anchors, it captures
\* [s2, s3] and never [] (anchored at s3).  No anchor, no match.
C4_EarliestAnchor ==
    RanNeedlessContinue =>
        LET stmts == expr.body.stmts
        IN  /\ captures[1].matched <=> ElseAnchors # {}
            /\ captures[1].matched =>
                   /\ captures[1].if_expr = stmts[Min(ElseAnchors)].expr
                   /\ captures[1].region_c
                          = SubSeq(stmts, Min(ElseAnchors) + 1, Len(stmts))
            /\ captures[2].matched <=> ThenAnchors # {}
            /\ captures[2].matched =>
                   /\ captures[2].if_expr = stmts[Min(ThenAnchors)].expr
                   /\ captures[2].region_c
                          = SubSeq(stmts, Min(ThenAnchors) + 1, Len(stmts))

C4_Witness ==
    /\ RanNeedlessContinue
    /\ Len(expr.body.stmts) = 4
    /\ ElseAnchors = {2, 4}
    /\ captures[1].matched
    /\ captures[1].region_c = <<expr.body.stmts[3], expr.body.stmts[4]>>

\* the span of the branch that holds the continue of a matched shape
ElseBranchFromExpansion ==
    captures[1].matched /\ from_expansion(captures[1].else_expr.span)

ThenBranchFromExpansion ==
    captures[2].matched /\ from_expansion(captures[2].if_block.span)

\* C7: when the branch that holds the continue (the else branch in the first
\* shape, the then branch in the second) comes from a macro expansion, no
\* diagnostic is emitted for the loop, even when the loop itself does not.
C7_ExpandedBranchSuppresses ==
    (RanNeedlessContinue /\ (ElseBranchFromExpansion \/ ThenBranchFromExpansion))
        => diags = <<>>

\* C8: whenever the 'then holds continue' shape reports, the diagnostic is on
\* the span of the if expression and carries no suggestion at all, so never a
\* machine-applicable one.
C8_ThenShapeIsAdvisory ==
    (/\ RanNeedlessContinue
     /\ ThenAnchors # {}
     /\ LabelsAgree(expr.label, ThenContinueLabel(Min(ThenAnchors)))) =>
        LET on == DiagsOn(expr.body.stmts[Min(ThenAnchors)].expr.span)
        IN  /\ Cardinality(on) = 1
            /\ \A k \in on : ~diags[k].sugg.present
            /\ \A k \in 1..Len(diags) :
                   diags[k].msg = MSG_ELSE_BLOCK_NOT_NEEDED => k \in on

C8_Witness ==
    /\ RanNeedlessContinue
    /\ ThenAnchors # {}
    /\ ElseAnchors = {}
    /\ Len(diags) = 1
    /\ diags[1].span = expr.body.stmts[Min(ThenAnchors)].expr.span
    /\ ~diags[1].sugg.present

\* the source text of a statement: its own, or the macro call it comes from
SourceText(stmt) ==
    IF stmt.span.ctxt = "root" THEN stmt.span.text ELSE CallSiteText

\* the texts written in the i-th statement of a loop body
TokensOf(i) == {CTok[i], STok[i], GTok[i], ETok[i]}

\* C9: when the 'else holds continue' shape reports on A...; if c { B } else
\* { continue; ... } C..., the diagnostic is on the span of the else branch
\* and its text is, whitespace aside, `if c {`, the content B of the then
\* block, every statement of C in its order and a closing brace, with no else
\* (but one written in a statement of C) and nothing of the statements of A.
C9_ElseShapeMergesTail ==
    (/\ RanNeedlessContinue
     /\ ElseAnchors # {}
     /\ LabelsAgree(expr.label, ElseContinueLabel(Min(ElseAnchors)))) =>
        LET stmts == expr.body.stmts
            i == Min(ElseAnchors)
            if_expr == stmts[i].expr
            on == DiagsOn(if_expr.els.span)
            B == Concat([j \in 1..Len(if_expr.then.stmts) |->
                            if_expr.then.stmts[j].span.text])
            C == Concat([j \in 1..(Len(stmts) - i) |-> SourceText(stmts[i + j])])
        IN  /\ Cardinality(on) = 1
            /\ \A k \in on :
                   /\ ~diags[k].sugg.present
                   /\ NonWs(diags[k].help)
                          = <<DROP_ELSE_BLOCK_AND_MERGE_MSG, "if">>
                            \o NonWs(if_expr.cond.span.text) \o <<"{">>
                            \o NonWs(B) \o NonWs(MergedComment)
                            \o NonWs(C) \o <<"}">>
                   /\ Occurs("else", diags[k].help) => Occurs("else", C)
                   /\ \A j \in 1..(i - 1) : \A tok \in TokensOf(j) :
                          ~Occurs(tok, diags[k].help)

\* loop { if c { g(); } else { continue; } h(); }
C9_Witness ==
    /\ RanNeedlessContinue
    /\ expr.node = "Loop"
    /\ Len(expr.body.stmts) = 2
    /\ ElseAnchors = {1}
    /\ expr.body.stmts[2].kind = "Semi"
    /\ expr.body.stmts[2].expr.node = "Path"
    /\ Len(diags) = 1
    /\ diags[1].span = expr.body.stmts[1].expr.els.span
    /\ NonWs(diags[1].help)
           = <<DROP_ELSE_BLOCK_AND_MERGE_MSG, "if", "c1", "{", "g1()", ";",
               "/", "/", "Merged code follows...", "s2()", ";", "}">>

\* a region A in front of the if and a tail behind it
C9_WitnessRegions ==
    /\ RanNeedlessContinue
    /\ Len(expr.body.stmts) = 4
    /\ ElseAnchors = {2}
    /\ ThenAnchors = {}
    /\ Len(diags) = 1


(***************************************************************************)
(* Properties of collapsible_if (checked under Spec).                      *)
(***************************************************************************)
\* the text, after its leading whitespace and opening braces, begins with a
\* comment marker
BeginsWithComment(text) ==
    LET k == LeadCount(text, Whitespace \cup {"{"})
    IN  /\ Len(text) >= k + 2
        /\ text[k + 1] = "/"
        /\ text[k + 2] \in {"/", "*"}

\* `if C1 { if C2 { BODY } }`: no else, and the sole statement of the block is
\* an if with no else
IsNestedIf ==
    /\ expr.node = "If"
    /\ expr.els.node = "None"
    /\ Len(expr.then.stmts) = 1
    /\ expr.then.stmts[1].kind \in {"Expr", "Semi"}
    /\ expr.then.stmts[1].expr.node = "If"
    /\ expr.then.stmts[1].expr.els.node = "None"

NestedIfGuardsHold ==
    LET inner == expr.then.stmts[1].expr
    IN  /\ expr.cond.node # "Let"
        /\ inner.cond.node # "Let"
        /\ ~BeginsWithComment(expr.then.span.text)
        /\ inner.span.ctxt = expr.span.ctxt

\* the one suggestion of the no-else shape: machine applicable, for the whole
\* outer span, `if C1 && C2 BODY`
IsCollapsedSuggestion(d) ==
    LET inner == expr.then.stmts[1].expr
        head == <<"if", " ">> \o expr.cond.span.text \o <<" ", "&&", " ">>
                \o inner.cond.span.text \o <<" ">>
    IN  /\ d.span = expr.span
        /\ d.sugg.present
        /\ d.sugg.applicability = "MachineApplicable"
        /\ d.sugg.span = expr.span
        /\ starts_with(d.sugg.replacement, head)
        /\ NonWs(SubSeq(d.sugg.replacement, Len(head) + 1, Len(d.sugg.replacement)))
               = NonWs(inner.then.span.text)

\* C5 as stated: on `if C1 { if C2 { BODY } }` the rule suggests nothing when a
\* guard is unmet (a let condition, a block that begins with a comment,
\* different syntax contexts of the two ifs) and makes exactly one
\* machine-applicable suggestion `if C1 && C2 BODY` for the whole outer span
\* when all guards hold.
C5_CollapsesWhenGuardsHold ==
    (pc = "collapsible_if" /\ IsNestedIf) =>
        IF NestedIfGuardsHold
        THEN Len(diags) = 1 /\ IsCollapsedSuggestion(diags[1])
        ELSE diags = <<>>

\* C5 amended: the same, the one suggestion being made when all guards hold and
\* the outer if itself does not come from a macro expansion; there is none when
\* it does.
C5_CollapsesWhenGuardsHoldOutsideExpansion ==
    (pc = "collapsible_if" /\ IsNestedIf) =>
        IF NestedIfGuardsHold /\ ~from_expansion(expr.span)
        THEN Len(diags) = 1 /\ IsCollapsedSuggestion(diags[1])
        ELSE diags = <<>>

\* if a { if b { f(); } }
C5_Witness ==
    /\ pc = "collapsible_if"
    /\ IsNestedIf
    /\ NestedIfGuardsHold
    /\ Len(diags) = 1
    /\ diags[1].sugg.replacement
           = <<"if", " ", "a", " ", "&&", " ", "b", " ", "{", " ", "f()", ";", " ", "}">>

\* if a { // k ... if b { f(); } }
C5_WitnessComment ==
    /\ pc = "collapsible_if"
    /\ IsNestedIf
    /\ ~from_expansion(expr.span)
    /\ BeginsWithComment(expr.then.span.text)
    /\ diags = <<>>

\* `if C { THEN } else { if C2 { BODY2 } }`: the sole statement of the else
\* block is an if
IsElseIfBlock ==
    /\ expr.node = "If"
    /\ expr.els.node = "Block"
    /\ Len(expr.els.block.stmts) = 1
    /\ expr.els.block.stmts[1].kind \in {"Expr", "Semi"}
    /\ expr.els.block.stmts[1].expr.node = "If"

ElseIfGuardsHold ==
    /\ ~BeginsWithComment(expr.els.span.text)
    /\ ~from_expansion(expr.els.block.stmts[1].expr.span)

\* the suggestion of the else shape: for the span of the else block, not of
\* the outer if, replaced by the text of the inner if
IsElseIfSuggestion(d) ==
    /\ d.span = expr.els.span
    /\ d.sugg.present
    /\ d.sugg.span = expr.els.span
    /\ d.sugg.span # expr.span
    /\ NonWs(d.sugg.replacement) = NonWs(expr.els.block.stmts[1].expr.span.text)

\* C6 as stated: on `if C { THEN } else { if C2 { BODY2 } }` the rule suggests
\* nothing when the else block begins with a comment or the inner if comes from
\* a macro expansion, and otherwise suggests to replace the else block by the
\* text of the inner if.
C6_CollapsesElseWhenGuardsHold ==
    (pc = "collapsible_if" /\ IsElseIfBlock) =>
        IF ElseIfGuardsHold
        THEN Len(diags) = 1 /\ IsElseIfSuggestion(diags[1])
        ELSE diags = <<>>

\* C6 amended: the same, the suggestion being made when neither guard rejects
\* and the outer if itself does not come from a macro expansion; there is none
\* when it does.
C6_CollapsesElseWhenGuardsHoldOutsideExpansion ==
    (pc = "collapsible_if" /\ IsElseIfBlock) =>
        IF ElseIfGuardsHold /\ ~from_expansion(expr.span)
        THEN Len(diags) = 1 /\ IsElseIfSuggestion(diags[1])
        ELSE diags = <<>>

C6_Witness ==
    /\ pc = "collapsible_if"
    /\ IsElseIfBlock
    /\ ElseIfGuardsHold
    /\ Len(diags) = 1
    /\ diags[1].sugg.replacement
           = <<"if", " ", "b", " ", "{", " ", "f()", ";", " ", "}">>
    /\ diags[1].sugg.span.text
           = <<"{", " ", "if", " ", "b", " ", "{", " ", "f()", ";", " ", "}", " ", "}">>

(***************************************************************************)
(* Expressions that come from a macro expansion (checked under Spec).      *)
(***************************************************************************)
\* C11: on an expression whose own span comes from a macro expansion, neither
\* collapsible_if nor needless_continue runs a pattern or emits a diagnostic,
\* whatever the shape of the expression.
C11_ExpandedExprIsSkipped ==
    (pc \in {"collapsible_if", "needless_continue"} /\ expr.span.ctxt # "root")
        => (diags = <<>> /\ captures = <<>>)

\* a loop from an expansion whose body has the first shape with agreeing labels
C11_Witness ==
    /\ pc = "needless_continue"
    /\ expr.span.ctxt # "root"
    /\ some_loop(expr)
    /\ ElseAnchors # {}
    /\ LabelsAgree(expr.label, ElseContinueLabel(Min(ElseAnchors)))
    /\ diags = <<>>
    /\ captures = <<>>

\* a nested if from an expansion that meets every guard of the no-else shape
C11_WitnessCollapsible ==
    /\ pc = "collapsible_if"
    /\ expr.span.ctxt # "root"
    /\ IsNestedIf
    /\ NestedIfGuardsHold
    /\ diags = <<>>
    /\ captures = <<>>

====
